---- MODULE Spec2Model ----
(***************************************************************************)
(* A model of the worker-side render script of Deadline Cloud for VRED     *)
(* (VRED_RenderScript_DeadlineCloud.py): the path mapper (map_path,        *)
(* load_path_mapping_rules) and the render orchestration routine           *)
(* (DeadlineCloudRenderer.render and the init_* methods it drives), and of  *)
(* two pieces of the submitter: FrameRange (scene.py) and                  *)
(* _get_parameter_values (vred_submitter.py).                              *)
(*                                                                         *)
(* A path is a sequence of one-character strings, so that prefixes,        *)
(* separators and letter case are what the code sees.                      *)
(***************************************************************************)
EXTENDS Integers, Sequences, FiniteSets, TLC

(***************************************************************************)
(* Bounds of the model.                                                    *)
(***************************************************************************)
MaxPathLen == 3
MaxFrame == 1
MaxCalls == 2
MaxTiles == 2
MaxDim == 4
MaxGrid == 3
MaxStart == 2
MaxStop == 10
MaxStep == 3
MaxQueue == 2
MaxValue == 2

(***************************************************************************)
(* Characters and strings.                                                 *)
(***************************************************************************)
Alphabet == {"/", "\\", ".", "a", "A"}

\* str.lower() on one character
LowerChar(c) == IF c = "A" THEN "a" ELSE c

\* str.lower()
Lower(s) == [i \in 1..Len(s) |-> LowerChar(s[i])]

\* str.replace(old, new) for one-character old and new
Replace(s, old, new) == [i \in 1..Len(s) |-> IF s[i] = old THEN new ELSE s[i]]

\* str.startswith(prefix)
StartsWith(s, prefix) ==
    /\ Len(prefix) <= Len(s)
    /\ SubSeq(s, 1, Len(prefix)) = prefix

\* s[n:]
DropFirst(s, n) == IF n >= Len(s) THEN <<>> ELSE SubSeq(s, n + 1, Len(s))

\* str.find(ch, start) with 0-based indices, -1 when absent
Find(s, ch, start) ==
    LET hits == {i \in (start + 1)..Len(s) : s[i] = ch}
    IN IF hits = {} THEN -1 ELSE (CHOOSE i \in hits : \A j \in hits : i <= j) - 1

\* str.split(sep): the components between the separators, empty ones kept
RECURSIVE Split(_, _)
Split(s, sep) ==
    LET k == Find(s, sep, 0)
    IN IF k = -1 THEN <<s>>
       ELSE <<SubSeq(s, 1, k)>> \o Split(DropFirst(s, k + 1), sep)

\* sep.join(comps)
RECURSIVE Join(_, _)
Join(comps, sep) ==
    IF comps = <<>> THEN <<>>
    ELSE IF Len(comps) = 1 THEN comps[1]
    ELSE comps[1] \o <<sep>> \o Join(Tail(comps), sep)

\* str.lstrip(ch)
RECURSIVE LStrip(_, _)
LStrip(s, ch) == IF s # <<>> /\ s[1] = ch THEN LStrip(Tail(s), ch) ELSE s

\* every string over Alphabet of length at most n
RECURSIVE StringsUpTo(_)
StringsUpTo(n) ==
    IF n = 0 THEN {<<>>}
    ELSE LET shorter == StringsUpTo(n - 1)
         IN shorter \cup {Append(s, c) : s \in shorter, c \in Alphabet}

(***************************************************************************)
(* os.path.normpath and os.sep of the two hosts a worker runs on.          *)
(***************************************************************************)
Hosts == {"posix", "nt"}

\* os.sep
Sep(host) == IF host = "nt" THEN "\\" ELSE "/"

\* posixpath.normpath: the loop over the components
RECURSIVE PosixComps(_, _, _)
PosixComps(comps, new_comps, initial_slashes) ==
    IF comps = <<>> THEN new_comps
    ELSE LET comp == Head(comps)
             rest == Tail(comps)
         IN IF comp = <<>> \/ comp = <<".">>
            THEN PosixComps(rest, new_comps, initial_slashes)
            ELSE IF \/ comp # <<".", ".">>
                    \/ (initial_slashes = 0 /\ new_comps = <<>>)
                    \/ (new_comps # <<>> /\ new_comps[Len(new_comps)] = <<".", ".">>)
            THEN PosixComps(rest, Append(new_comps, comp), initial_slashes)
            ELSE IF new_comps # <<>>
            THEN PosixComps(rest, SubSeq(new_comps, 1, Len(new_comps) - 1), initial_slashes)
            ELSE PosixComps(rest, new_comps, initial_slashes)

\* posixpath.normpath
PosixNormpath(path) ==
    IF path = <<>> THEN <<".">>
    ELSE LET initial_slashes ==
                 IF ~StartsWith(path, <<"/">>) THEN 0
                 ELSE IF StartsWith(path, <<"/", "/">>) /\ ~StartsWith(path, <<"/", "/", "/">>)
                 THEN 2 ELSE 1
             comps == PosixComps(Split(path, "/"), <<>>, initial_slashes)
             joined == [i \in 1..initial_slashes |-> "/"] \o Join(comps, "/")
         IN IF joined = <<>> THEN <<".">> ELSE joined

\* ntpath.splitdrive: <<drive, rest>>; no drive letters occur over Alphabet,
\* a path that starts with two separators is a UNC path
NtSplitdrive(p) ==
    LET normp == Replace(p, "/", "\\")
    IN IF Len(p) >= 2 /\ SubSeq(normp, 1, 2) = <<"\\", "\\">>
       THEN LET index == Find(normp, "\\", 2)
                index2 == IF index = -1 THEN -1 ELSE Find(normp, "\\", index + 1)
            IN IF index = -1 \/ index2 = -1 THEN <<p, <<>>>>
               ELSE <<SubSeq(p, 1, index2), DropFirst(p, index2)>>
       ELSE <<<<>>, p>>

\* ntpath.normpath: the loop over the components
RECURSIVE NtComps(_, _, _)
NtComps(comps, kept, prefix) ==
    IF comps = <<>> THEN kept
    ELSE LET comp == Head(comps)
             rest == Tail(comps)
         IN IF comp = <<>> \/ comp = <<".">>
            THEN NtComps(rest, kept, prefix)
            ELSE IF comp = <<".", ".">>
            THEN IF kept # <<>> /\ kept[Len(kept)] # <<".", ".">>
                 THEN NtComps(rest, SubSeq(kept, 1, Len(kept) - 1), prefix)
                 ELSE IF kept = <<>> /\ prefix # <<>> /\ prefix[Len(prefix)] = "\\"
                 THEN NtComps(rest, kept, prefix)
                 ELSE NtComps(rest, Append(kept, comp), prefix)
            ELSE NtComps(rest, Append(kept, comp), prefix)

\* ntpath.normpath
NtNormpath(p) ==
    LET path == Replace(p, "/", "\\")
        split == NtSplitdrive(path)
        rooted == StartsWith(split[2], <<"\\">>)
        prefix == IF rooted THEN Append(split[1], "\\") ELSE split[1]
        tail == IF rooted THEN LStrip(split[2], "\\") ELSE split[2]
        comps == NtComps(Split(tail, "\\"), <<>>, prefix)
    IN IF prefix = <<>> /\ comps = <<>> THEN <<".">>
       ELSE prefix \o Join(comps, "\\")

\* os.path.normpath
Normpath(host, path) == IF host = "nt" THEN NtNormpath(path) ELSE PosixNormpath(path)

(***************************************************************************)
(* Path mapping rules and the rules file.                                  *)
(***************************************************************************)
\* PathFormat
PathFormat == {"WINDOWS", "POSIX"}

\* PathMappingRule
PathMappingRule(format, source, destination) ==
    [source_path_format |-> format, source_path |-> source, destination_path |-> destination]

\* source and destination paths of the rules the model draws
SourcePaths == {<<"/", "a">>, <<"/", "A">>, <<"/">>}
DestinationPaths == {<<>>, <<"/", "A", ".">>}

Rules == {PathMappingRule(f, s, d) : f \in PathFormat, s \in SourcePaths, d \in DestinationPaths}

\* the second rules of the two-rule lists that start with r1: those with another
\* destination, so that the result of map_path tells which rule was applied
Rules2(r1) == {r2 \in Rules : r2.destination_path # r1.destination_path}

\* What PathMappingRulesFile names: no file that can be opened ("missing"), a file
\* that is not JSON ("invalid_json"), a JSON object without the path_mapping_rules
\* list ("no_list"), a list holding a record that lacks a field ("bad_record"), or
\* a well-formed list of rules ("ok").
RulesFile(kind, rules) == [kind |-> kind, rules |-> rules]

BrokenRulesFiles ==
    {RulesFile(k, <<>>) : k \in {"missing", "invalid_json", "no_list", "bad_record"}}

RulesFiles ==
    BrokenRulesFiles
        \cup {RulesFile("ok", <<>>)}
        \cup {RulesFile("ok", <<r>>) : r \in Rules}
        \cup UNION {{RulesFile("ok", <<r1, r2>>) : r2 \in Rules2(r1)} : r1 \in Rules}

\* load_path_mapping_rules on one file: the exception that leaves the method
\* ("none" when it returns), its return value, the rule list it leaves behind and
\* whether it logged an error. open() failing is caught; json.load, iterating
\* data.get(...) and PathMappingRule(**mapping) run outside the except clause.
load_path_mapping_rules(file, current) ==
    CASE file.kind = "missing" ->
            [exc |-> "none", ret |-> FALSE, rules |-> current, logged |-> TRUE]
      [] file.kind = "invalid_json" ->
            [exc |-> "JSONDecodeError", ret |-> FALSE, rules |-> current, logged |-> FALSE]
      [] file.kind \in {"no_list", "bad_record"} ->
            [exc |-> "TypeError", ret |-> FALSE, rules |-> current, logged |-> FALSE]
      [] OTHER ->
            [exc |-> "none", ret |-> TRUE, rules |-> file.rules, logged |-> FALSE]

\* RuleMatches with the POSIX branch lower-casing like the WINDOWS branch
RuleMatchesIgnoringCase(h, rule, path) ==
    /\ rule.source_path_format \in {"WINDOWS", "POSIX"}
    /\ StartsWith(Lower(Replace(Normpath(h, path), "\\", "/")),
                  Lower(Replace(Normpath(h, rule.source_path), "\\", "/")))

\* the condition of map_path's if statement on one rule
RuleMatches(h, rule, path) ==
    LET in_path == Normpath(h, path)
        source_path == Normpath(h, rule.source_path)
        in_path_norm == Replace(in_path, "\\", "/")
        source_path_norm == Replace(source_path, "\\", "/")
    IN \/ /\ rule.source_path_format = "WINDOWS"
          /\ StartsWith(Lower(in_path_norm), Lower(source_path_norm))
       \/ /\ rule.source_path_format = "POSIX"
          /\ StartsWith(in_path_norm, source_path_norm)

\* what map_path returns when `rule` is the rule that matched
ApplyRule(h, rule, path) ==
    LET in_path == Normpath(h, path)
        source_path == Normpath(h, rule.source_path)
        dest_path == Normpath(h, rule.destination_path)
    IN Replace(Normpath(h, dest_path \o <<Sep(h)>> \o DropFirst(in_path, Len(source_path))),
               "\\", Sep(h))

\* MapLoop searching the list from its end: the last matching rule wins
RECURSIVE MapLoopLast(_, _, _, _)
MapLoopLast(h, rules, path, i) ==
    LET k == Len(rules) + 1 - i
    IN IF k < 1 THEN [ret |-> path, rule |-> 0]
       ELSE IF RuleMatches(h, rules[k], path)
       THEN [ret |-> ApplyRule(h, rules[k], path), rule |-> k]
       ELSE MapLoopLast(h, rules, path, i + 1)

\* MapLoop returning the normalised path when no rule matches
RECURSIVE MapLoopNormalizing(_, _, _, _)
MapLoopNormalizing(h, rules, path, i) ==
    IF i > Len(rules) THEN [ret |-> Replace(Normpath(h, path), "\\", "/"), rule |-> 0]
    ELSE IF RuleMatches(h, rules[i], path)
    THEN [ret |-> ApplyRule(h, rules[i], path), rule |-> i]
    ELSE MapLoopNormalizing(h, rules, path, i + 1)

\* map_path's loop over the rule list from rule i on: the value returned and the
\* number of the rule whose branch returned it (0: the return after the loop)
RECURSIVE MapLoop(_, _, _, _)
MapLoop(h, rules, path, i) ==
    IF i > Len(rules) THEN [ret |-> path, rule |-> 0]
    ELSE IF RuleMatches(h, rules[i], path)
    THEN [ret |-> ApplyRule(h, rules[i], path), rule |-> i]
    ELSE MapLoop(h, rules, path, i + 1)

\* map_path: the exception raised ("none" when it returns), the value returned,
\* the number of the rule applied, the rule list afterwards, whether
\* load_path_mapping_rules was called and whether it logged an error
map_path(h, file, current, path) ==
    IF current = <<>>
    THEN LET l == load_path_mapping_rules(file, current)
             looped == MapLoop(h, l.rules, path, 1)
             early == l.exc # "none" \/ ~l.ret
         IN [exc |-> l.exc,
             ret |-> IF early THEN path ELSE looped.ret,
             rule |-> IF early THEN 0 ELSE looped.rule,
             rules |-> l.rules, loaded |-> TRUE, logged |-> l.logged]
    ELSE LET looped == MapLoop(h, current, path, 1)
         IN [exc |-> "none", ret |-> looped.ret, rule |-> looped.rule,
             rules |-> current, loaded |-> FALSE, logged |-> FALSE]

(***************************************************************************)
(* The scene's file references and init_file_references.                   *)
(***************************************************************************)
\* a reference node of vrReferenceService.getSceneReferences()
Node(smart, smart_path, source_path) ==
    [smart |-> smart, smart_path |-> smart_path, source_path |-> source_path]

\* the scene the model draws: a smart and a plain reference
Scenes ==
    {<<Node(TRUE, <<"/", "a", "/", "a">>, <<"a", "/", "/">>),
       Node(FALSE, <<"a", "/", "/">>, <<"/", "A", "\\", "a">>)>>}

\* a call of the VRED API or of the logger, with the arguments the model keeps
Call(fn, args) == [fn |-> fn, args |-> args]

\* bool as the int Python takes it for
Bool(b) == IF b THEN 1 ELSE 0

\* logger.error(exc) of load_path_mapping_rules, when map_path outcome m logged it
LoadLog(m) == IF m.logged THEN <<Call("logger.error", <<>>)>> ELSE <<>>

\* init_file_references from node i on: the nodes, the rule list, the number of
\* loads, the calls made and the exception that ended the loop ("none": none).
\* MapNode is one pass of the loop body, m the outcome of its map_path call.
RECURSIVE init_file_references(_, _, _, _, _, _)
RECURSIVE MapNode(_, _, _, _, _, _)
\* MapNode writing the mapped path to the source path of every node, smart or not
MapNodeSourceOnly(h, file, refs, i, loads, m) ==
    IF m.exc # "none"
    THEN [refs |-> refs, rules |-> m.rules, loads |-> loads + Bool(m.loaded),
          calls |-> LoadLog(m), exc |-> m.exc]
    ELSE [init_file_references(
              h, file, m.rules, [refs EXCEPT ![i] = [refs[i] EXCEPT !.source_path = m.ret]],
              i + 1, loads + Bool(m.loaded))
          EXCEPT !.calls = LoadLog(m) \o <<Call("setSourcePath", <<i>>)>> \o @]

MapNode(h, file, refs, i, loads, m) ==
    IF m.exc # "none"
    THEN [refs |-> refs, rules |-> m.rules, loads |-> loads + Bool(m.loaded),
          calls |-> LoadLog(m), exc |-> m.exc]
    ELSE [init_file_references(
              h, file, m.rules,
              [refs EXCEPT ![i] = IF refs[i].smart
                                  THEN [refs[i] EXCEPT !.smart_path = m.ret]
                                  ELSE [refs[i] EXCEPT !.source_path = m.ret]],
              i + 1, loads + Bool(m.loaded))
          EXCEPT !.calls =
              LoadLog(m)
                  \o <<Call(IF refs[i].smart THEN "setSmartPath" ELSE "setSourcePath", <<i>>)>>
                  \o @]

init_file_references(h, file, rules, refs, i, loads) ==
    IF i > Len(refs)
    THEN [refs |-> refs, rules |-> rules, loads |-> loads, calls |-> <<>>, exc |-> "none"]
    ELSE MapNode(h, file, refs, i, loads,
                 map_path(h, file, rules,
                          IF refs[i].smart THEN refs[i].smart_path ELSE refs[i].source_path))

(***************************************************************************)
(* Validation and renderer configuration.  Each method is an operator that *)
(* gives the calls it makes, in order, and the exception that ends it      *)
(* ("none" when it returns).                                               *)
(***************************************************************************)
Result(calls, exc) == [calls |-> calls, exc |-> exc]

\* statement a; statement b: b runs only when a returned
Then(a, b) == IF a.exc # "none" THEN a ELSE Result(a.calls \o b.calls, b.exc)

Info == Result(<<Call("logger.info", <<>>)>>, "none")

\* a VRED API call that returns
Api(fn, args) == Result(<<Call(fn, args)>>, "none")

RENDER_QUALITY_DICT ==
    {"Analytic Low", "Analytic High", "Realistic Low", "Realistic High", "Raytracing", "NPR"}
SS_QUALITY_DICT == {"Off", "Low", "Medium", "High", "Ultra High"}
DLSS_QUALITY_DICT == {"Off", "Performance", "Balanced", "Quality", "Ultra Performance"}
ANIMATION_TYPE_DICT == {"Clip", "Timeline"}

ERROR_INVALID_ANIMATION_TYPE == "Invalid animation type"
ERROR_INVALID_RENDER_QUALITY == "Invalid render quality"
ERROR_INVALID_SS_QUALITY == "Invalid Supersampling quality"
ERROR_INVALID_DLSS_QUALITY == "Invalid DLSS quality"
ERROR_FRAMES == "StartFrame exceeds EndFrame"
WARNING_VIEW == "Could not find the specified camera or viewpoint name"
WARNING_DLSS == "DLSS is already enabled. Non-DLSS Supersampling will be ignored."

\* validate_parameter_in_dict
validate_parameter_in_dict(parameter_name, dictionary, error_message) ==
    IF parameter_name \notin dictionary
    THEN Result(<<Call("logger.error", <<>>)>>, error_message)
    ELSE Result(<<>>, "none")

\* validate_render_settings without the frame range check
validate_render_settings_no_frames(p) ==
    Then(Info,
    Then(validate_parameter_in_dict(p.RenderQuality, RENDER_QUALITY_DICT,
                                    ERROR_INVALID_RENDER_QUALITY),
    Then(validate_parameter_in_dict(p.SSQuality, SS_QUALITY_DICT, ERROR_INVALID_SS_QUALITY),
    Then(validate_parameter_in_dict(p.DLSSQuality, DLSS_QUALITY_DICT,
                                    ERROR_INVALID_DLSS_QUALITY),
         validate_parameter_in_dict(p.AnimationType, ANIMATION_TYPE_DICT,
                                    ERROR_INVALID_ANIMATION_TYPE)))))

\* validate_render_settings
validate_render_settings(p) ==
    Then(Info,
    Then(validate_parameter_in_dict(p.RenderQuality, RENDER_QUALITY_DICT,
                                    ERROR_INVALID_RENDER_QUALITY),
    Then(validate_parameter_in_dict(p.SSQuality, SS_QUALITY_DICT, ERROR_INVALID_SS_QUALITY),
    Then(validate_parameter_in_dict(p.DLSSQuality, DLSS_QUALITY_DICT,
                                    ERROR_INVALID_DLSS_QUALITY),
    Then(validate_parameter_in_dict(p.AnimationType, ANIMATION_TYPE_DICT,
                                    ERROR_INVALID_ANIMATION_TYPE),
         IF p.StartFrame > p.EndFrame THEN Result(<<>>, ERROR_FRAMES)
         ELSE Result(<<>>, "none"))))))

\* process_warning raising whatever JobFailureOnWarnings says
process_warning_always_raising(p, message) ==
    Result(<<Call("logger.warning", <<>>)>>, message)

\* process_warning
process_warning(p, message) ==
    Result(<<Call("logger.warning", <<>>)>>,
           IF p.JobFailureOnWarnings THEN message ELSE "none")

\* the viewpoints and the cameras of the scene
Viewpoints == {"Front", "Both"}
Cameras == {"Perspective", "Both"}

\* init_camera_view
init_camera_view(p, view_name) ==
    IF view_name = "" THEN Result(<<>>, "none")
    ELSE IF view_name \in Viewpoints
    THEN Then(Info, Then(Api("setRenderView", <<>>), Api("getViewpoint.activate", <<>>)))
    ELSE IF view_name \in Cameras
    THEN Then(Info, Then(Api("setRenderView", <<>>), Api("getCamera.activate", <<>>)))
    ELSE process_warning(p, WARNING_VIEW)

\* init_render_quality_modes applying the supersampling also when DLSS was applied
init_render_quality_modes_both(p, e) ==
    Then(Api("setRenderQuality", <<>>),
    Then(IF p.DLSSQuality # "Off" THEN Api("isDLSSSupported", <<>>) ELSE Result(<<>>, "none"),
    Then(IF p.DLSSQuality # "Off" /\ e.isDLSSSupported
         THEN Then(Info, Api("setDLSSQuality", <<>>))
         ELSE Result(<<>>, "none"),
    Then(IF p.SSQuality # "Off"
         THEN Then(Api("setSuperSamplingQuality", <<>>),
              Then(Info, Api("setSuperSampling", <<1>>)))
         ELSE Result(<<>>, "none"),
    Then(Info,
    Then(Api("enableRaytracing", <<Bool(e.GPURaytracing # 0)>>),
         Api("setRaytracingMode", <<e.GPURaytracing>>)))))))

\* init_render_quality_modes; e gives the parameters and the answers of the host
\* application that only this configuration step reads
init_render_quality_modes(p, e) ==
    LET dlss_on == p.DLSSQuality # "Off"
        dlss_quality_applied == dlss_on /\ e.isDLSSSupported
    IN Then(Api("setRenderQuality", <<>>),
       Then(IF dlss_on THEN Api("isDLSSSupported", <<>>) ELSE Result(<<>>, "none"),
       Then(IF dlss_quality_applied THEN Then(Info, Api("setDLSSQuality", <<>>))
            ELSE Result(<<>>, "none"),
       Then(IF p.SSQuality # "Off"
            THEN IF dlss_quality_applied THEN process_warning(p, WARNING_DLSS)
                 ELSE Then(Api("setSuperSamplingQuality", <<>>),
                      Then(Info, Api("setSuperSampling", <<1>>)))
            ELSE Result(<<>>, "none"),
       Then(Info,
       Then(Api("enableRaytracing", <<Bool(e.GPURaytracing # 0)>>),
            Api("setRaytracingMode", <<e.GPURaytracing>>)))))))

\* init_render_animation
init_render_animation ==
    Then(Api("setRenderStartFrame", <<>>),
    Then(Api("setRenderStopFrame", <<>>),
    Then(Api("setRenderFrameStep", <<>>),
    Then(Api("setRenderAnimationFormat", <<>>),
    Then(Api("setRenderAnimationType", <<>>),
    Then(Api("setRenderAnimationClip", <<>>),
    Then(Api("setRenderSupersampling", <<1>>),
         Api("setRenderUseClipRange", <<0>>))))))))

\* init_render_job
init_render_job(p, e) ==
    Then(init_camera_view(p, e.View),
    Then(init_render_quality_modes(p, e),
    Then(Api("setRenderPixelResolution", <<>>),
    Then(Api("setRenderAnimation", <<Bool(e.RenderAnimation)>>),
    Then(IF e.RenderAnimation THEN init_render_animation ELSE Result(<<>>, "none"),
         Api("setRenderAlpha", <<>>))))))

\* init_sequencer_job
init_sequencer_job(e) ==
    IF e.SequenceName = "" THEN Then(Info, Api("runAllSequences", <<>>))
    ELSE Then(Info, Api("runSequence", <<>>))

\* init_by_job_type
init_by_job_type(p, e) ==
    IF e.JobType = "Render Queue" THEN Then(Info, Api("runAllRenderJobs", <<>>))
    ELSE IF e.JobType = "Sequencer" THEN init_sequencer_job(e)
    ELSE IF e.JobType = "Render" THEN init_render_job(p, e)
    ELSE Result(<<>>, "none")

\* init_override_render_passes
init_override_render_passes == Api("setUseRenderPasses", <<>>)

\* init_common_features
init_common_features ==
    Then(Api("setRenderPremultiply", <<>>), Api("setRenderTonemapHDR", <<>>))

\* pixel_bounds without the remainder of the last row and column
pixel_bounds_no_remainder(p) ==
    [left |-> (p.ImageWidth \div p.NumXTiles) * (p.TileNumberX - 1),
     right |-> (p.ImageWidth \div p.NumXTiles) * p.TileNumberX - 1,
     bottom |-> (p.ImageHeight \div p.NumYTiles) * (p.TileNumberY - 1),
     top |-> (p.ImageHeight \div p.NumYTiles) * p.TileNumberY - 1]

\* pixel_bounds with the remainder added to every tile
pixel_bounds_remainder_everywhere(p) ==
    [left |-> (p.ImageWidth \div p.NumXTiles) * (p.TileNumberX - 1),
     right |-> (p.ImageWidth \div p.NumXTiles) * p.TileNumberX - 1
                  + (p.ImageWidth % p.NumXTiles),
     bottom |-> (p.ImageHeight \div p.NumYTiles) * (p.TileNumberY - 1),
     top |-> (p.ImageHeight \div p.NumYTiles) * p.TileNumberY - 1
                  + (p.ImageHeight % p.NumYTiles)]

\* the bounds init_render_region calculates for the tile (tile counts not 0)
pixel_bounds(p) ==
    LET delta_x == p.ImageWidth \div p.NumXTiles
        width_remainder == p.ImageWidth % p.NumXTiles
        delta_y == p.ImageHeight \div p.NumYTiles
        height_remainder == p.ImageHeight % p.NumYTiles
    IN [left |-> delta_x * (p.TileNumberX - 1),
        right |-> (delta_x * p.TileNumberX) - 1
                     + (IF p.TileNumberX = p.NumXTiles THEN width_remainder ELSE 0),
        bottom |-> delta_y * (p.TileNumberY - 1),
        top |-> (delta_y * p.TileNumberY) - 1
                   + (IF p.TileNumberY = p.NumYTiles THEN height_remainder ELSE 0)]

\* raytracing_region without the flip of the vertical axis
raytracing_region_unflipped(p, b) ==
    <<b.left, p.ImageWidth, b.bottom, p.ImageHeight,
      b.right, p.ImageWidth, b.top, p.ImageHeight>>

\* the arguments of setRaytracingRenderRegion for the bounds b (image dimensions
\* not 0): the four fractions left/ImageWidth, 1 - top/ImageHeight,
\* right/ImageWidth and 1 - bottom/ImageHeight, each as numerator, denominator
raytracing_region(p, b) ==
    <<b.left, p.ImageWidth, p.ImageHeight - b.top, p.ImageHeight,
      b.right, p.ImageWidth, p.ImageHeight - b.bottom, p.ImageHeight>>

\* the four pixel setters of init_render_region
SetPixelBounds(b) ==
    Then(Api("setRenderRegionStartX", <<b.left>>),
    Then(Api("setRenderRegionEndX", <<b.right>>),
    Then(Api("setRenderRegionStartY", <<b.bottom>>),
         Api("setRenderRegionEndY", <<b.top>>))))

\* init_render_region setting the region whatever RegionRendering is
init_render_region_always(p) ==
    IF p.NumXTiles = 0 \/ p.NumYTiles = 0
    THEN Then(Api("setUseRenderRegion", <<Bool(p.RegionRendering)>>),
              Result(<<>>, "ZeroDivisionError"))
    ELSE Then(Api("setUseRenderRegion", <<Bool(p.RegionRendering)>>),
         Then(SetPixelBounds(pixel_bounds(p)),
         Then(IF p.ImageWidth = 0 \/ p.ImageHeight = 0
              THEN Result(<<>>, "ZeroDivisionError")
              ELSE Api("setRaytracingRenderRegion", raytracing_region(p, pixel_bounds(p))),
              Api("enableRaytracing", <<1>>))))

\* init_render_region leaving the region alone, without an error, when a tile
\* count or an image dimension is 0
init_render_region_lenient(p) ==
    IF ~p.RegionRendering THEN Api("setUseRenderRegion", <<0>>)
    ELSE IF p.NumXTiles = 0 \/ p.NumYTiles = 0 \/ p.ImageWidth = 0 \/ p.ImageHeight = 0
    THEN Api("setUseRenderRegion", <<1>>)
    ELSE Then(Api("setUseRenderRegion", <<1>>),
         Then(SetPixelBounds(pixel_bounds(p)),
         Then(Api("setRaytracingRenderRegion", raytracing_region(p, pixel_bounds(p))),
              Api("enableRaytracing", <<1>>))))

\* init_render_region without its enableRaytracing(True)
init_render_region_without_raytracing(p) ==
    IF ~p.RegionRendering THEN Api("setUseRenderRegion", <<0>>)
    ELSE IF p.NumXTiles = 0 \/ p.NumYTiles = 0
    THEN Then(Api("setUseRenderRegion", <<1>>), Result(<<>>, "ZeroDivisionError"))
    ELSE Then(Api("setUseRenderRegion", <<1>>),
         Then(SetPixelBounds(pixel_bounds(p)),
              IF p.ImageWidth = 0 \/ p.ImageHeight = 0
              THEN Result(<<>>, "ZeroDivisionError")
              ELSE Api("setRaytracingRenderRegion", raytracing_region(p, pixel_bounds(p)))))

\* init_render_region: divmod raises ZeroDivisionError on a tile count 0, the
\* float division on an image dimension 0 (after the four pixel setters)
init_render_region(p) ==
    IF ~p.RegionRendering THEN Api("setUseRenderRegion", <<0>>)
    ELSE IF p.NumXTiles = 0 \/ p.NumYTiles = 0
    THEN Then(Api("setUseRenderRegion", <<1>>), Result(<<>>, "ZeroDivisionError"))
    ELSE Then(Api("setUseRenderRegion", <<1>>),
         Then(SetPixelBounds(pixel_bounds(p)),
         Then(IF p.ImageWidth = 0 \/ p.ImageHeight = 0
              THEN Result(<<>>, "ZeroDivisionError")
              ELSE Api("setRaytracingRenderRegion", raytracing_region(p, pixel_bounds(p))),
              Api("enableRaytracing", <<1>>))))

\* init_render_settings
init_render_settings(p, e) ==
    Then(init_by_job_type(p, e),
    Then(IF e.OverrideRenderPass THEN init_override_render_passes ELSE Result(<<>>, "none"),
    Then(init_common_features,
    Then(init_render_region(p),
         Api("setRenderFilename", <<>>)))))

(***************************************************************************)
(* State.                                                                  *)
(***************************************************************************)
VARIABLES
    host,                \* the worker's operating system family
    rules_file,          \* what render_parameters.PathMappingRulesFile names
    path_mapping_rules,  \* self.path_mapping_rules
    load_attempts,       \* calls of load_path_mapping_rules so far
    in_path,             \* the path handed to map_path by a direct caller
    map_calls,           \* direct calls of map_path so far
    last_map,            \* the outcome of the last direct map_path call
    WANT_VRED_TERMINATION_ON_ERROR,  \* the module-level policy flag
    render_parameters,   \* self.render_parameters, the fields render() reads twice or checks
    settings,            \* the fields and host answers init_render_settings reads, once read
    references,          \* the scene's file reference nodes
    pc,                  \* where render() stands
    calls,               \* the calls made to the VRED API and the logger, in order
    exc,                 \* the exception raised inside the try block ("none": none)
    raised_in,           \* the statement of the try block that raised it
    render_parameters_dict,  \* what the dictionary handed to deadline_cloud_render holds
    frame_range,         \* a FrameRange of the submitter: start, stop, step
    frame_iter,          \* the iterations of frame_range so far and what the last one gave
    ui_settings,         \* the fields of the submitter's settings, in dataclass order
    queue_parameters,    \* the parameters of the submitter's queue tab
    parameter_call,      \* the calls of _get_parameter_values so far and the last outcome
    bundle_settings,     \* the settings and the scene a job bundle is asked for
    template_call,       \* the calls of _get_job_template so far and the last template
    job_bundle           \* the calls of _create_job_bundle_callback so far and the last outcome

map_vars == <<host, rules_file, path_mapping_rules, load_attempts, in_path, map_calls, last_map>>
render_vars == <<WANT_VRED_TERMINATION_ON_ERROR, render_parameters, settings, references, pc,
                 calls, exc, raised_in>>
vars == <<host, rules_file, path_mapping_rules, load_attempts, in_path, map_calls, last_map,
          WANT_VRED_TERMINATION_ON_ERROR, render_parameters, settings, references, pc, calls,
          exc, raised_in, render_parameters_dict, frame_range, frame_iter, ui_settings,
          queue_parameters, parameter_call, bundle_settings, template_call, job_bundle>>
bundle_vars == <<bundle_settings, template_call, job_bundle>>
submitter_vars == <<frame_range, frame_iter, ui_settings, queue_parameters, parameter_call,
                    bundle_vars>>
worker_vars == <<host, rules_file, path_mapping_rules, load_attempts, in_path, map_calls,
                 last_map, WANT_VRED_TERMINATION_ON_ERROR, render_parameters, settings,
                 references, pc, calls, exc, raised_in, render_parameters_dict>>

\* Optional[int]: None is <<>>, the integer n is <<n>>
None == <<>>

Some(n) == <<n>>

\* FrameRange(start, stop, step)
FrameRange(start, stop, step) == [start |-> start, stop |-> stop, step |-> step]

\* nothing iterated yet, nothing asked of _get_parameter_values yet
NotIterated == [count |-> 0, frames |-> <<>>, exc |-> "none"]

NotAsked == [count |-> 0, ret |-> <<>>, exc |-> "none"]

\* the settings and the scene _create_job_bundle_callback works on: settings.name
\* and settings.description (Optional[str]), Scene.name(), whether
\* settings.OutputDir exists, whether settings.OutputFileNamePrefix is a valid
\* file name, settings.FrameStep, is_scene_file_modified() and the purpose
BundleSettings(name, description, scene_name, exists, valid, FrameStep, modified, purpose) ==
    [name |-> name, description |-> description, scene_name |-> scene_name,
     output_dir_exists |-> exists, prefix_valid |-> valid,
     FrameStep |-> FrameStep, scene_modified |-> modified, purpose |-> purpose]

\* a job template: its name, its description and the host requirements of its step
JobTemplate(name, description, host_requirements) ==
    [name |-> name, description |-> description,
     steps |-> <<[hostRequirements |-> host_requirements]>>]

\* no job bundle asked for yet, no template asked for yet
NoBundle ==
    [count |-> 0, created |-> 0, saved |-> 0, files |-> <<>>,
     template |-> JobTemplate(None, None, None), synced |-> FALSE, exc |-> "none"]

NoTemplate == [count |-> 0, ret |-> JobTemplate(None, None, None)]

BundleIdle ==
    /\ bundle_settings = BundleSettings(None, None, "", FALSE, FALSE, 0, FALSE, "SUBMISSION")
    /\ template_call = NoTemplate
    /\ job_bundle = NoBundle

\* the submitter's side while the worker's script runs: nothing happens there
SubmitterIdle ==
    /\ frame_range = FrameRange(0, None, None)
    /\ frame_iter = NotIterated
    /\ ui_settings = <<>>
    /\ queue_parameters = <<>>
    /\ parameter_call = NotAsked
    /\ BundleIdle

(***************************************************************************)
(* The inputs the model draws.                                             *)
(***************************************************************************)
Paths == StringsUpTo(MaxPathLen)

Frames == 0..MaxFrame

\* one axis of a tile specification: the image dimension, the number of tiles
\* and the tile's number
Axis(dim, num, tile) == [dim |-> dim, num |-> num, tile |-> tile]

\* the first and the last tile of a grid, and the three ways out of the
\* precondition: no tiles, an empty image, a tile number beyond the grid
Axes ==
    {Axis(MaxTiles + 1, MaxTiles, 1), Axis(MaxTiles + 1, MaxTiles, MaxTiles),
     Axis(MaxTiles + 1, 0, 1), Axis(0, MaxTiles, 1), Axis(MaxTiles + 1, MaxTiles, MaxTiles + 1)}

\* the tile specifications: every axis with region rendering on, the first tile
\* with region rendering off
Regions ==
    {<<TRUE, a>> : a \in Axes} \cup {<<FALSE, Axis(MaxTiles + 1, MaxTiles, 1)>>}

\* the render parameters validate_render_settings checks and those read by more
\* than one method; the tile grid is drawn square
RenderParameters ==
    {[RenderQuality |-> rq, SSQuality |-> ss, DLSSQuality |-> dlss, AnimationType |-> at,
      StartFrame |-> sf, EndFrame |-> ef, JobFailureOnWarnings |-> jf,
      RegionRendering |-> r[1], ImageWidth |-> r[2].dim, ImageHeight |-> r[2].dim,
      NumXTiles |-> r[2].num, NumYTiles |-> r[2].num, TileNumberX |-> r[2].tile,
      TileNumberY |-> r[2].tile] :
        rq \in {"Realistic High", "Cinematic"}, ss \in {"Off", "High", "Extreme"},
        dlss \in {"Off", "Quality", "Insane"}, at \in {"Clip", "Loop"},
        sf \in Frames, ef \in Frames, jf \in BOOLEAN, r \in Regions}

\* the parameters and the answers of the host application that
\* init_render_settings reads once; a field no statement reads keeps one value
Setting(job_type, sequence_name, view, dlss_supported, gpu, animation, override) ==
    [JobType |-> job_type, SequenceName |-> sequence_name, View |-> view,
     isDLSSSupported |-> dlss_supported, GPURaytracing |-> gpu,
     RenderAnimation |-> animation, OverrideRenderPass |-> override]

Settings ==
    {Setting(j, "", "", FALSE, 0, FALSE, o) : j \in {"Render Queue", "Preview"}, o \in BOOLEAN}
        \cup {Setting("Sequencer", n, "", FALSE, 0, FALSE, o) : n \in {"", "Intro"}, o \in BOOLEAN}
        \cup {Setting("Render", "", v, d, g, a, o) :
                 v \in {"", "Front", "Perspective", "Top"}, d \in BOOLEAN, g \in {0, 1},
                 a \in BOOLEAN, o \in BOOLEAN}

\* before init_render_settings has read them
Unread == Setting("unread", "", "", FALSE, 0, FALSE, FALSE)

\* the rules files of a render: one that cannot be opened, one that is not JSON,
\* and one rule
RenderRulesFiles ==
    {RulesFile("missing", <<>>), RulesFile("invalid_json", <<>>),
     RulesFile("ok", <<PathMappingRule("WINDOWS", <<"/", "a">>, <<"/", "A", ".">>)>>)}

NoMap == [exc |-> "none", ret |-> <<>>, rule |-> 0, loaded |-> FALSE]

(***************************************************************************)
(* DeadlineCloudRenderer.render on a constructed renderer.                 *)
(***************************************************************************)
Init ==
    /\ host \in Hosts
    /\ rules_file \in RenderRulesFiles
    /\ path_mapping_rules = <<>>
    /\ load_attempts = 0
    /\ in_path = <<>>
    /\ map_calls = 0
    /\ last_map = NoMap
    /\ WANT_VRED_TERMINATION_ON_ERROR \in BOOLEAN
    /\ render_parameters \in RenderParameters
    /\ settings = Unread
    /\ references \in Scenes
    /\ pc = "validate_render_settings"
    /\ calls = <<>>
    /\ exc = "none"
    /\ raised_in = "none"
    /\ render_parameters_dict = "complete"
    /\ SubmitterIdle

\* Step with the exception swallowed: the try block goes on
StepSwallowing(r, next) ==
    /\ calls' = calls \o r.calls
    /\ exc' = r.exc
    /\ raised_in' = IF r.exc # "none" THEN pc ELSE "none"
    /\ pc' = next

\* a statement of the try block ended with calls r.calls and exception r.exc
Step(r, next) ==
    /\ calls' = calls \o r.calls
    /\ exc' = r.exc
    /\ raised_in' = IF r.exc # "none" THEN pc ELSE "none"
    /\ pc' = IF r.exc # "none" THEN "except" ELSE next

\* self.validate_render_settings()
ValidateRenderSettings ==
    /\ pc = "validate_render_settings"
    /\ \E r \in {validate_render_settings(render_parameters)} :
          Step(r, "init_file_references")
    /\ UNCHANGED <<submitter_vars, render_parameters_dict>>
    /\ UNCHANGED <<map_vars, WANT_VRED_TERMINATION_ON_ERROR, render_parameters, settings,
                   references>>

\* self.init_file_references()
InitFileReferences ==
    /\ pc = "init_file_references"
    /\ \E r \in {init_file_references(host, rules_file, path_mapping_rules, references, 1,
                                      load_attempts)} :
          /\ Step(r, "init_render_settings")
          /\ references' = r.refs
          /\ path_mapping_rules' = r.rules
          /\ load_attempts' = r.loads
    /\ UNCHANGED <<submitter_vars, render_parameters_dict>>
    /\ UNCHANGED <<host, rules_file, in_path, map_calls, last_map,
                   WANT_VRED_TERMINATION_ON_ERROR, render_parameters, settings>>

\* self.init_render_settings()
InitRenderSettings ==
    /\ pc = "init_render_settings"
    /\ \E e \in Settings :
          /\ settings' = e
          /\ \E r \in {init_render_settings(render_parameters, e)} :
                Step(r, "startRenderToFile")
    /\ UNCHANGED <<submitter_vars, render_parameters_dict>>
    /\ UNCHANGED <<map_vars, WANT_VRED_TERMINATION_ON_ERROR, render_parameters, references>>

\* self.logger.info("Starting Render"); startRenderToFile(True), which returns or raises
StartRender ==
    /\ pc = "startRenderToFile"
    /\ \E raises \in BOOLEAN :
          Step(Then(Info, Result(<<Call("startRenderToFile", <<1>>)>>,
                                 IF raises THEN "RuntimeError" ELSE "none")),
               "terminateVred")
    /\ UNCHANGED <<submitter_vars, render_parameters_dict>>
    /\ UNCHANGED <<map_vars, WANT_VRED_TERMINATION_ON_ERROR, render_parameters, settings,
                   references>>

\* the try block ending without its terminateVred()
TerminateSkipped ==
    /\ pc = "terminateVred"
    /\ pc' = "finally"
    /\ UNCHANGED <<submitter_vars, render_parameters_dict>>
    /\ UNCHANGED <<map_vars, WANT_VRED_TERMINATION_ON_ERROR, render_parameters, settings,
                   references, calls, exc, raised_in>>

\* terminateVred() at the end of the try block
TerminateAfterRender ==
    /\ pc = "terminateVred"
    /\ Step(Api("terminateVred", <<>>), "finally")
    /\ UNCHANGED <<submitter_vars, render_parameters_dict>>
    /\ UNCHANGED <<map_vars, WANT_VRED_TERMINATION_ON_ERROR, render_parameters, settings,
                   references>>

\* an except clause that crashes the session before it logs
except_clause_crash_first(flag) ==
    (IF flag THEN <<Call("crashVred", <<1>>)>> ELSE <<>>)
        \o <<Call("logger.error", <<>>), Call("logger.error", <<>>)>>

\* an except clause that only logs
except_clause_without_crash(flag) ==
    <<Call("logger.error", <<>>), Call("logger.error", <<>>)>>

\* the calls of the except clause
except_clause(flag) ==
    <<Call("logger.error", <<>>), Call("logger.error", <<>>)>>
        \o (IF flag THEN <<Call("crashVred", <<1>>)>> ELSE <<>>)

\* except Exception as exc
HandleException ==
    /\ pc = "except"
    /\ calls' = calls \o except_clause(WANT_VRED_TERMINATION_ON_ERROR)
    /\ pc' = "finally"
    /\ UNCHANGED <<submitter_vars, render_parameters_dict>>
    /\ UNCHANGED <<map_vars, WANT_VRED_TERMINATION_ON_ERROR, render_parameters, settings,
                   references, exc, raised_in>>

\* a finally clause that terminates only when the flag is off
finally_clause_inverted(flag) == IF flag THEN <<>> ELSE <<Call("terminateVred", <<>>)>>

\* the calls of the finally clause
finally_clause(flag) == IF flag THEN <<Call("terminateVred", <<>>)>> ELSE <<>>

\* finally
Finally ==
    /\ pc = "finally"
    /\ calls' = calls \o finally_clause(WANT_VRED_TERMINATION_ON_ERROR)
    /\ pc' = "done"
    /\ UNCHANGED <<submitter_vars, render_parameters_dict>>
    /\ UNCHANGED <<map_vars, WANT_VRED_TERMINATION_ON_ERROR, render_parameters, settings,
                   references, exc, raised_in>>

Next ==
    \/ ValidateRenderSettings
    \/ InitFileReferences
    \/ InitRenderSettings
    \/ StartRender
    \/ TerminateAfterRender
    \/ HandleException
    \/ Finally

Spec == Init /\ [][Next]_vars

(***************************************************************************)
(* The path mapper on its own: map_path called, again and again, with one  *)
(* path on one renderer instance.                                          *)
(***************************************************************************)
\* DeadlineCloudRenderer.__init__, as far as the path mapper goes
MapInit ==
    /\ host \in Hosts
    /\ rules_file \in RulesFiles
    /\ in_path \in Paths
    /\ path_mapping_rules = <<>>
    /\ load_attempts = 0
    /\ map_calls = 0
    /\ last_map = NoMap
    /\ WANT_VRED_TERMINATION_ON_ERROR = TRUE
    /\ render_parameters = CHOOSE p \in RenderParameters : TRUE
    /\ settings = Unread
    /\ references = <<>>
    /\ pc = "idle"
    /\ calls = <<>>
    /\ exc = "none"
    /\ raised_in = "none"
    /\ render_parameters_dict = "complete"
    /\ SubmitterIdle

\* one call renderer.map_path(in_path); a call that raises is over, the instance lives on
MapPathCall ==
    /\ map_calls < MaxCalls
    /\ \E m \in {map_path(host, rules_file, path_mapping_rules, in_path)} :
       /\ map_calls' = map_calls + 1
       /\ path_mapping_rules' = m.rules
       /\ load_attempts' = IF m.loaded THEN load_attempts + 1 ELSE load_attempts
       /\ last_map' = [exc |-> m.exc, ret |-> m.ret, rule |-> m.rule, loaded |-> m.loaded]
       /\ calls' = calls \o LoadLog(m)
       /\ UNCHANGED <<submitter_vars, render_parameters_dict>>
       /\ UNCHANGED <<host, rules_file, in_path, WANT_VRED_TERMINATION_ON_ERROR,
                      render_parameters, settings, references, pc, exc, raised_in>>

MapNext == MapPathCall

SpecMap == MapInit /\ [][MapNext]_vars
(***************************************************************************)
(* Properties of render().                                                 *)
(***************************************************************************)
\* the places in calls of the calls of fn
CallsOf(fn) == {i \in DOMAIN calls : calls[i].fn = fn}

Count(fn) == Cardinality(CallsOf(fn))

Terminate == Call("terminateVred", <<>>)

\* C1, as claimed: the final step of every render() call makes a terminateVred()
\* call and ends the invocation, whatever WANT_VRED_TERMINATION_ON_ERROR is.
C1_FinalStepAlwaysTerminates ==
    [][pc = "finally" => pc' = "done" /\ calls' = Append(calls, Terminate)]_vars

\* C1, amended: with WANT_VRED_TERMINATION_ON_ERROR true every render() call ends
\* with a terminateVred() call made by the final step, on the success path and on
\* every failure path, also after crashVred or terminateVred was called earlier;
\* with the flag false the final step makes no call at all.
C1_FinalStepTerminatesUnderFlag ==
    /\ [](pc = "done" /\ WANT_VRED_TERMINATION_ON_ERROR
            => calls # <<>> /\ calls[Len(calls)] = Terminate)
    /\ [][pc = "finally"
            => /\ pc' = "done"
               /\ WANT_VRED_TERMINATION_ON_ERROR => calls' = Append(calls, Terminate)
               /\ ~WANT_VRED_TERMINATION_ON_ERROR => calls' = calls]_vars

\* a failed render() that crashed the session and then terminated it in the final step
C1_Witness ==
    /\ pc = "done"
    /\ WANT_VRED_TERMINATION_ON_ERROR
    /\ raised_in = "init_render_settings"
    /\ Count("crashVred") = 1
    /\ calls[Len(calls)] = Terminate
    /\ calls[Len(calls) - 1].fn = "crashVred"

\* C2, as claimed: a render() that ends without an exception has called
\* startRenderToFile once and, after it, terminateVred exactly once in all.
C2_OneTerminateOnSuccess ==
    pc = "done" /\ exc = "none"
        => /\ Count("startRenderToFile") = 1
           /\ Count("terminateVred") = 1
           /\ \A i \in CallsOf("startRenderToFile"), j \in CallsOf("terminateVred") : i < j

\* C2, amended: a render() that ends without an exception has called
\* startRenderToFile once and, after it, terminateVred twice when
\* WANT_VRED_TERMINATION_ON_ERROR is true (the end of the try block, then the final
\* step) and once when it is false; crashVred is not called.
C2_TerminatesAfterRender ==
    pc = "done" /\ exc = "none"
        => /\ Count("startRenderToFile") = 1
           /\ Count("terminateVred") = (IF WANT_VRED_TERMINATION_ON_ERROR THEN 2 ELSE 1)
           /\ \A i \in CallsOf("startRenderToFile"), j \in CallsOf("terminateVred") : i < j
           /\ Count("crashVred") = 0

\* a successful render() under the flag as the source sets it
C2_Witness ==
    /\ pc = "done"
    /\ exc = "none"
    /\ WANT_VRED_TERMINATION_ON_ERROR
    /\ Count("startRenderToFile") = 1
    /\ Count("terminateVred") = 2

\* what validate_render_settings rejects
InvalidSettings(p) ==
    \/ p.RenderQuality \notin RENDER_QUALITY_DICT
    \/ p.SSQuality \notin SS_QUALITY_DICT
    \/ p.DLSSQuality \notin DLSS_QUALITY_DICT
    \/ p.AnimationType \notin ANIMATION_TYPE_DICT
    \/ p.StartFrame > p.EndFrame

\* the calls that neither configure the renderer nor touch the scene nor render
Bookkeeping == {"logger.info", "logger.error", "crashVred", "terminateVred"}

\* C3: with a quality or animation type outside its option set, or StartFrame >
\* EndFrame, render() fails in validation: no file reference is rewritten, the
\* rules file is not even read, no configuration setter and no startRenderToFile
\* is ever called.
C3_InvalidSettingsFailFirst ==
    InvalidSettings(render_parameters)
        => /\ \A i \in DOMAIN calls : calls[i].fn \in Bookkeeping
           /\ references \in Scenes
           /\ load_attempts = 0
           /\ settings = Unread
           /\ pc # "validate_render_settings"
                => raised_in = "validate_render_settings" /\ exc # "none"

\* a render() that ended on StartFrame > EndFrame with every option valid
C3_Witness ==
    /\ pc = "done"
    /\ render_parameters.StartFrame > render_parameters.EndFrame
    /\ exc = ERROR_FRAMES
    /\ render_parameters.RenderQuality \in RENDER_QUALITY_DICT

\* the three statements of the try block before the render trigger
Preparation == {"validate_render_settings", "init_file_references", "init_render_settings"}

\* C4: startRenderToFile is called at most once, after the three preparation
\* steps returned (the output file name was the last thing set, then "Starting
\* Render" was logged); when a preparation step raised, control has left the try
\* block and startRenderToFile is never called.
C4_RenderTriggeredOnceAfterPreparation ==
    /\ Count("startRenderToFile") <= 1
    /\ \A i \in CallsOf("startRenderToFile") :
          /\ i > 2
          /\ calls[i - 2].fn = "setRenderFilename"
          /\ calls[1].fn = "logger.info"
          /\ settings # Unread
          /\ raised_in \notin Preparation
          /\ pc \in {"terminateVred", "except", "finally", "done"}
    /\ raised_in \in Preparation
          => pc \in {"except", "finally", "done"} /\ Count("startRenderToFile") = 0
    /\ pc \in Preparation \cup {"startRenderToFile"} => Count("startRenderToFile") = 0

\* a render() that triggered the render, and one that failed while configuring
C4_Witness ==
    /\ pc = "done"
    /\ Count("startRenderToFile") = 1
    /\ Count("setRenderFilename") = 1

\* the requested view is neither a viewpoint nor a camera of the scene
ViewMissing ==
    /\ settings.JobType = "Render"
    /\ settings.View # ""
    /\ settings.View \notin Viewpoints \cup Cameras

\* supersampling is requested and DLSS has been applied (and init_camera_view returned)
SupersamplingIgnored ==
    /\ settings.JobType = "Render"
    /\ render_parameters.SSQuality # "Off"
    /\ render_parameters.DLSSQuality # "Off"
    /\ settings.isDLSSSupported
    /\ ~(ViewMissing /\ render_parameters.JobFailureOnWarnings)

Warnings == Bool(ViewMissing) + Bool(SupersamplingIgnored)

WarningMessages == {WARNING_VIEW, WARNING_DLSS}

SlashNorm(path) == Replace(Normpath(host, path), "\\", "/")

\* the places in the cached rule list of the rules whose source prefix matches in_path
Matching == {i \in DOMAIN path_mapping_rules : RuleMatches(host, path_mapping_rules[i], in_path)}

\* C6: load_path_mapping_rules never raises; with a rules file that is missing,
\* not JSON, without the path_mapping_rules list or holding a record that lacks a
\* field, the rule list stays empty and every map_path call returns its input.
C6_LoadNeverRaises ==
    map_calls > 0
        => /\ last_map.exc = "none"
           /\ rules_file \in BrokenRulesFiles
                => /\ path_mapping_rules = <<>>
                   /\ last_map.ret = in_path
                   /\ last_map.rule = 0

\* C7: over any sequence of map_path calls on one instance the rules file is
\* loaded at most once, by the first call, whatever that attempt's outcome.
C7_RulesLoadedAtMostOnce ==
    /\ load_attempts = (IF map_calls > 0 THEN 1 ELSE 0)
    /\ map_calls > 1 => ~last_map.loaded

\* C8: when one or more rules match the input path, map_path returns the rewrite
\* of the first matching rule in list order alone, also when a later matching
\* rule has the longer source prefix; with no matching rule none is applied.
C8_FirstMatchingRuleWins ==
    map_calls > 0 /\ last_map.exc = "none"
        => \A matching \in {Matching} :
              /\ matching # {}
                    => /\ last_map.rule \in matching
                       /\ \A j \in matching : last_map.rule <= j
                       /\ last_map.ret
                              = ApplyRule(host, path_mapping_rules[last_map.rule], in_path)
              /\ matching = {} => last_map.rule = 0

\* two rules match, the second with the longer prefix and another rewrite: the first is applied
C8_Witness ==
    /\ map_calls > 0
    /\ Matching = {1, 2}
    /\ Len(path_mapping_rules[2].source_path) > Len(path_mapping_rules[1].source_path)
    /\ ApplyRule(host, path_mapping_rules[1], in_path) # ApplyRule(host, path_mapping_rules[2], in_path)
    /\ last_map.rule = 1
    /\ last_map.ret = ApplyRule(host, path_mapping_rules[1], in_path)

\* C9: the first rule of the list is applied exactly when the separator-normalised
\* input path starts with the rule's (normalised) source path, compared without
\* regard to case for a WINDOWS rule and with regard to case for a POSIX rule.
C9_PrefixCaseFollowsRuleFormat ==
    map_calls > 0 /\ path_mapping_rules # <<>>
        => \A in_path_norm \in {SlashNorm(in_path)},
              source_path_norm \in {SlashNorm(path_mapping_rules[1].source_path)} :
              /\ path_mapping_rules[1].source_path_format = "WINDOWS"
                    => (last_map.rule = 1
                           <=> StartsWith(Lower(in_path_norm), Lower(source_path_norm)))
              /\ path_mapping_rules[1].source_path_format = "POSIX"
                    => (last_map.rule = 1 <=> StartsWith(in_path_norm, source_path_norm))

\* a POSIX rule with source "/A" left a path under "/a" alone
C9_Witness ==
    /\ map_calls > 0
    /\ Len(path_mapping_rules) = 1
    /\ path_mapping_rules[1].source_path_format = "POSIX"
    /\ path_mapping_rules[1].source_path = <<"/", "A">>
    /\ StartsWith(SlashNorm(in_path), <<"/", "a">>)
    /\ last_map.rule = 0
    /\ last_map.ret = in_path

\* C10, as claimed: when no rule's source prefix matches the path, map_path
\* returns the normalised form of the path (the host's normpath, with or without
\* the forward-slash replacement).
C10_UnmatchedPathIsNormalized ==
    map_calls > 0 /\ last_map.exc = "none" /\ Matching = {}
        => last_map.ret \in {Normpath(host, in_path), SlashNorm(in_path)}

\* C10, amended: when no rule's source prefix matches the path, map_path returns
\* the path exactly as it was given, not normalised.
C10_UnmatchedPathIsReturnedAsGiven ==
    map_calls > 0 /\ last_map.exc = "none" /\ Matching = {}
        => last_map.ret = in_path /\ last_map.rule = 0

\* rules are loaded, none matches, and the path returned is not in normal form
C10_Witness ==
    /\ map_calls > 0
    /\ path_mapping_rules # <<>>
    /\ Matching = {}
    /\ in_path # <<>>
    /\ in_path \notin {Normpath(host, in_path), SlashNorm(in_path)}
    /\ last_map.ret = in_path

\* C11: when the rule applied has an empty destination path, map_path returns
\* a path that begins with the host's path separator (the remainder of the input
\* path rooted at the separator).
C11_EmptyDestinationIsRooted ==
    map_calls > 0 /\ last_map.rule # 0
        => (path_mapping_rules[last_map.rule].destination_path = <<>>
               => StartsWith(last_map.ret, <<Sep(host)>>))

\* C27: map_path applies a rule only when the rule's source path is a prefix of
\* the input path that ends on a path-component boundary: the input path ends
\* there, or a separator follows, or the source path itself ends with one (a
\* source '/data' rewrites '/data/x.vpb' and leaves '/database/x.vpb' alone).
C27_RuleAppliesOnComponentBoundary ==
    map_calls > 0 /\ last_map.rule # 0
        => \A in_path_norm \in {SlashNorm(in_path)},
              source_path_norm \in {SlashNorm(path_mapping_rules[last_map.rule].source_path)} :
              \/ Len(in_path_norm) = Len(source_path_norm)
              \/ source_path_norm[Len(source_path_norm)] = "/"
              \/ in_path_norm[Len(source_path_norm) + 1] = "/"

(***************************************************************************)
(* init_render_region on its own: the tiles of one image, each configured  *)
(* by a render job of its own (a fresh list of calls per tile).            *)
(***************************************************************************)
\* image dimensions: the small ones and the 10 of a 10x10 image
Dims == 0..MaxDim \cup {10}

GridSizes == 0..MaxGrid

\* the tile numbers a job may be given for a grid of num tiles, in the grid or not
TileNumbers(num) == 0..(num + 1)

TileParameters ==
    {[(CHOOSE p \in RenderParameters : TRUE) EXCEPT
         !.RegionRendering = region, !.ImageWidth = w, !.ImageHeight = h,
         !.NumXTiles = nx, !.NumYTiles = ny, !.TileNumberX = 1, !.TileNumberY = 1] :
        region \in BOOLEAN, w \in Dims, h \in Dims, nx \in GridSizes, ny \in GridSizes}

TileInit ==
    /\ host = "posix"
    /\ rules_file = RulesFile("missing", <<>>)
    /\ path_mapping_rules = <<>>
    /\ load_attempts = 0
    /\ in_path = <<>>
    /\ map_calls = 0
    /\ last_map = NoMap
    /\ WANT_VRED_TERMINATION_ON_ERROR = TRUE
    /\ render_parameters \in TileParameters
    /\ settings = Unread
    /\ references = <<>>
    /\ pc = "init_render_region"
    /\ calls = <<>>
    /\ exc = "none"
    /\ raised_in = "none"
    /\ render_parameters_dict = "complete"
    /\ SubmitterIdle

\* self.init_render_region() of the job that renders tile (tx, ty)
InitRenderRegion ==
    /\ pc = "init_render_region"
    /\ \E tx \in TileNumbers(render_parameters.NumXTiles),
          ty \in TileNumbers(render_parameters.NumYTiles) :
          \E p \in {[render_parameters EXCEPT !.TileNumberX = tx, !.TileNumberY = ty]} :
             \E r \in {init_render_region(p)} :
                /\ render_parameters' = p
                /\ calls' = r.calls
                /\ exc' = r.exc
                /\ raised_in' = IF r.exc # "none" THEN pc ELSE "none"
    /\ UNCHANGED <<submitter_vars, render_parameters_dict>>
    /\ UNCHANGED <<map_vars, WANT_VRED_TERMINATION_ON_ERROR, settings, references, pc>>

TileNext == InitRenderRegion

SpecTile == TileInit /\ [][TileNext]_vars

(***************************************************************************)
(* Properties of init_render_region().                                     *)
(***************************************************************************)
\* the arguments of the call of fn among the calls cs
Arg(cs, fn) == cs[CHOOSE i \in DOMAIN cs : cs[i].fn = fn].args

\* the pixel box the calls cs set on the renderer
PixelBox(cs) ==
    [left |-> Arg(cs, "setRenderRegionStartX")[1], right |-> Arg(cs, "setRenderRegionEndX")[1],
     bottom |-> Arg(cs, "setRenderRegionStartY")[1], top |-> Arg(cs, "setRenderRegionEndY")[1]]

\* the pixel box set by the job of tile t = <<tx, ty>> of p's grid
TileBox(p, t) ==
    PixelBox(init_render_region([p EXCEPT !.TileNumberX = t[1], !.TileNumberY = t[2]]).calls)

InBox(b, x, y) == b.left <= x /\ x <= b.right /\ b.bottom <= y /\ y <= b.top

\* the tiles of p's grid
Grid(p) == (1..p.NumXTiles) \X (1..p.NumYTiles)

\* positive image dimensions and tile counts, region rendering on
TiledImage(p) ==
    /\ p.RegionRendering
    /\ p.ImageWidth >= 1 /\ p.ImageHeight >= 1
    /\ p.NumXTiles >= 1 /\ p.NumYTiles >= 1

\* the tile number is one of the grid
TileInGrid(p) == <<p.TileNumberX, p.TileNumberY>> \in Grid(p)

\* C12: for image dimensions and tile counts >= 1 the inclusive pixel boxes set
\* for the tiles of the grid partition the image: every pixel of [0, width) x
\* [0, height) lies in the box of exactly one tile, and no box holds a pixel
\* outside the image.
C12_TileBoxesPartitionImage ==
    TiledImage(render_parameters)
        => \A boxes \in {[t \in Grid(render_parameters) |-> TileBox(render_parameters, t)]} :
              /\ \A x \in 0..(render_parameters.ImageWidth - 1),
                    y \in 0..(render_parameters.ImageHeight - 1) :
                    Cardinality({t \in DOMAIN boxes : InBox(boxes[t], x, y)}) = 1
              /\ \A t \in DOMAIN boxes :
                    \/ boxes[t].left > boxes[t].right
                    \/ boxes[t].bottom > boxes[t].top
                    \/ /\ 0 <= boxes[t].left
                       /\ boxes[t].right < render_parameters.ImageWidth
                       /\ 0 <= boxes[t].bottom
                       /\ boxes[t].top < render_parameters.ImageHeight
              /\ calls # <<>> /\ TileInGrid(render_parameters)
                    => PixelBox(calls)
                          = boxes[<<render_parameters.TileNumberX, render_parameters.TileNumberY>>]

\* the job of tile (2, 3) of a 3 x 3 grid over a 10 x 4 image has set its box
C12_Witness ==
    /\ TiledImage(render_parameters)
    /\ render_parameters.ImageWidth = 10 /\ render_parameters.ImageHeight = 4
    /\ render_parameters.NumXTiles = 3 /\ render_parameters.NumYTiles = 3
    /\ render_parameters.TileNumberX = 2 /\ render_parameters.TileNumberY = 3
    /\ calls # <<>>
    /\ PixelBox(calls) = [left |-> 3, right |-> 5, bottom |-> 2, top |-> 3]

\* the horizontal and the vertical span of a pixel box
SpanX(b) == b.right - b.left + 1

SpanY(b) == b.top - b.bottom + 1

\* C13: a tile that is not in the last column spans ImageWidth \div NumXTiles
\* pixels horizontally and a tile of the last column that plus ImageWidth %
\* NumXTiles; the same for rows with ImageHeight and NumYTiles: the remainder
\* pixels go to the last row and column only.
C13_RemainderGoesToLastRowAndColumn ==
    TiledImage(render_parameters) /\ TileInGrid(render_parameters) /\ calls # <<>>
        => /\ SpanX(PixelBox(calls))
                 = (render_parameters.ImageWidth \div render_parameters.NumXTiles)
                      + (IF render_parameters.TileNumberX = render_parameters.NumXTiles
                         THEN render_parameters.ImageWidth % render_parameters.NumXTiles
                         ELSE 0)
           /\ SpanY(PixelBox(calls))
                 = (render_parameters.ImageHeight \div render_parameters.NumYTiles)
                      + (IF render_parameters.TileNumberY = render_parameters.NumYTiles
                         THEN render_parameters.ImageHeight % render_parameters.NumYTiles
                         ELSE 0)

\* width 10 with 3 tiles: the last column spans 4 pixels, a row that is not the last 3
C13_Witness ==
    /\ TiledImage(render_parameters)
    /\ render_parameters.ImageWidth = 10 /\ render_parameters.NumXTiles = 3
    /\ render_parameters.ImageHeight = 10 /\ render_parameters.NumYTiles = 3
    /\ render_parameters.TileNumberX = 3 /\ render_parameters.TileNumberY = 2
    /\ calls # <<>>
    /\ SpanX(PixelBox(calls)) = 4
    /\ SpanY(PixelBox(calls)) = 3

\* the fraction num/den equals a/b (denominators not 0)
FractionIs(num, den, a, b) == den # 0 /\ b # 0 /\ num * b = a * den

\* C14: the region handed to setRaytracingRenderRegion for the pixel bounds
\* (left, right, bottom, top) is, as exact fractions, (x0, y0, x1, y1) =
\* (left/ImageWidth, 1 - top/ImageHeight, right/ImageWidth, 1 - bottom/ImageHeight):
\* the vertical axis is flipped.
C14_RaytracingRegionIsFlipped ==
    CallsOf("setRaytracingRenderRegion") # {}
        => \A b \in {PixelBox(calls)}, region \in {Arg(calls, "setRaytracingRenderRegion")} :
              /\ Len(region) = 8
              /\ FractionIs(region[1], region[2], b.left, render_parameters.ImageWidth)
              /\ FractionIs(region[3], region[4],
                            render_parameters.ImageHeight - b.top, render_parameters.ImageHeight)
              /\ FractionIs(region[5], region[6], b.right, render_parameters.ImageWidth)
              /\ FractionIs(region[7], region[8],
                            render_parameters.ImageHeight - b.bottom,
                            render_parameters.ImageHeight)

\* bounds (0, 4, 0, 4) on a 10 x 10 image gave the region (0.0, 0.6, 0.4, 1.0)
C14_Witness ==
    /\ render_parameters.ImageWidth = 10 /\ render_parameters.ImageHeight = 10
    /\ CallsOf("setRaytracingRenderRegion") # {}
    /\ PixelBox(calls) = [left |-> 0, right |-> 4, bottom |-> 0, top |-> 4]
    /\ FractionIs(Arg(calls, "setRaytracingRenderRegion")[1],
                  Arg(calls, "setRaytracingRenderRegion")[2], 0, 10)
    /\ FractionIs(Arg(calls, "setRaytracingRenderRegion")[3],
                  Arg(calls, "setRaytracingRenderRegion")[4], 6, 10)
    /\ FractionIs(Arg(calls, "setRaytracingRenderRegion")[5],
                  Arg(calls, "setRaytracingRenderRegion")[6], 4, 10)
    /\ FractionIs(Arg(calls, "setRaytracingRenderRegion")[7],
                  Arg(calls, "setRaytracingRenderRegion")[8], 10, 10)

\* the fraction num/den lies in [0, 1]
InUnitInterval(num, den) == den > 0 /\ 0 <= num /\ num <= den

\* C15: for every tile of a grid with positive tile counts and image dimensions
\* and a tile number within the grid, the four coordinates x0, y0, x1, y1 passed
\* to setRaytracingRenderRegion lie in [0, 1].
C15_RegionCoordinatesInUnitInterval ==
    /\ TiledImage(render_parameters) /\ TileInGrid(render_parameters)
    /\ CallsOf("setRaytracingRenderRegion") # {}
    => \A region \in {Arg(calls, "setRaytracingRenderRegion")} :
          \A k \in 1..4 : InUnitInterval(region[2 * k - 1], region[2 * k])

\* region rendering with a tile count or an image dimension of 0
ZeroTiling(p) ==
    /\ p.RegionRendering
    /\ p.NumXTiles = 0 \/ p.NumYTiles = 0 \/ p.ImageWidth = 0 \/ p.ImageHeight = 0

\* C16: with region rendering on and NumXTiles, NumYTiles, ImageWidth or
\* ImageHeight 0, render() fails with an error: once init_render_region has run
\* the invocation has raised ZeroDivisionError, no region is ever passed to
\* setRaytracingRenderRegion and startRenderToFile is never called.
C16_ZeroTilingFailsExplicitly ==
    ZeroTiling(render_parameters)
        => /\ Count("setRaytracingRenderRegion") = 0
           /\ Count("startRenderToFile") = 0
           /\ Count("setUseRenderRegion") > 0
                => exc = "ZeroDivisionError" /\ raised_in = "init_render_settings"
           /\ pc = "done" => exc # "none"

\* a render() of a 0 pixel wide image over a grid with tiles: it failed in the
\* region step after the four pixel setters
C16_Witness ==
    /\ pc = "done"
    /\ render_parameters.RegionRendering
    /\ render_parameters.ImageWidth = 0
    /\ render_parameters.NumXTiles > 0
    /\ exc = "ZeroDivisionError"
    /\ Count("setRenderRegionEndY") = 1
    /\ Count("crashVred") = Bool(WANT_VRED_TERMINATION_ON_ERROR)

\* the calls that set region bounds on the renderer
RegionSetters ==
    {"setRenderRegionStartX", "setRenderRegionEndX", "setRenderRegionStartY",
     "setRenderRegionEndY", "setRaytracingRenderRegion"}

\* C17: with region rendering on, a TileNumberX outside 1..NumXTiles or a
\* TileNumberY outside 1..NumYTiles fails the invocation: no region bounds are
\* set on the renderer, startRenderToFile is not called, and render() ends with
\* an exception caught.
C17_TileOutsideGridFailsLoudly ==
    render_parameters.RegionRendering /\ ~TileInGrid(render_parameters)
        => /\ \A i \in DOMAIN calls : calls[i].fn \notin RegionSetters
           /\ Count("startRenderToFile") = 0
           /\ pc = "done" => exc # "none"

\* C19: when RegionRendering is false a render() invocation never sets region
\* bounds (no setRenderRegionStartX/EndX/StartY/EndY, no
\* setRaytracingRenderRegion), and when its configuration reaches the region
\* step it switches the render-region mode off, once.
C19_NoRegionWithoutRegionRendering ==
    ~render_parameters.RegionRendering
        => /\ \A i \in DOMAIN calls : calls[i].fn \notin RegionSetters
           /\ \A i \in CallsOf("setUseRenderRegion") : calls[i].args = <<0>>
           /\ Count("setUseRenderRegion") <= 1
           /\ Count("setRenderFilename") > 0 => Count("setUseRenderRegion") = 1

\* a successful render() without region rendering
C19_Witness ==
    /\ pc = "done"
    /\ exc = "none"
    /\ ~render_parameters.RegionRendering
    /\ Count("setUseRenderRegion") = 1
    /\ Count("startRenderToFile") = 1

(***************************************************************************)
(* Properties of render(): the order of logging and session-ending calls,  *)
(* ray tracing and supersampling, the file references.                     *)
(***************************************************************************)
\* the places in calls of the calls that end the session
SessionEnding == CallsOf("crashVred") \cup CallsOf("terminateVred")

\* C23: on every failure path of render() the exception and its traceback are
\* logged before any termination action: while the handler has not run no
\* crashVred or terminateVred call has been made, and afterwards the two error
\* log entries of the handler come before every crashVred and terminateVred call.
C23_FailureLoggedBeforeTermination ==
    exc # "none"
        => /\ pc \in {"except", "finally", "done"}
           /\ pc = "except" => SessionEnding = {}
           /\ pc \in {"finally", "done"}
                => \E i \in DOMAIN calls :
                      /\ i > 1
                      /\ calls[i - 1].fn = "logger.error"
                      /\ calls[i].fn = "logger.error"
                      /\ \A j \in SessionEnding : j > i
                      /\ \A j \in (i + 1)..Len(calls) : j \in SessionEnding

\* a render() whose render trigger raised: two log entries, then crashVred, then terminateVred
C23_Witness ==
    /\ pc = "done"
    /\ WANT_VRED_TERMINATION_ON_ERROR
    /\ raised_in = "startRenderToFile"
    /\ Len(calls) > 4
    /\ calls[Len(calls) - 3].fn = "logger.error"
    /\ calls[Len(calls) - 2].fn = "logger.error"
    /\ calls[Len(calls) - 1].fn = "crashVred"
    /\ calls[Len(calls)].fn = "terminateVred"

\* C24: with WANT_VRED_TERMINATION_ON_ERROR true every render() makes exactly two
\* session-ending calls: on the success path terminateVred right after the render
\* trigger and terminateVred in the final step; on a failure path crashVred(1) in
\* the handler and then terminateVred in the final step.
C24_TwoSessionEndingCallsUnderFlag ==
    WANT_VRED_TERMINATION_ON_ERROR /\ pc = "done"
        => /\ Cardinality(SessionEnding) = 2
           /\ SessionEnding = {Len(calls) - 1, Len(calls)}
           /\ calls[Len(calls)] = Terminate
           /\ exc = "none"
                => /\ calls[Len(calls) - 1] = Terminate
                   /\ calls[Len(calls) - 2].fn = "startRenderToFile"
           /\ exc # "none"
                => /\ calls[Len(calls) - 1] = Call("crashVred", <<1>>)
                   /\ calls[Len(calls) - 2].fn = "logger.error"

\* a render() that failed in validation: crashVred(1) once, then terminateVred once
C24_Witness ==
    /\ pc = "done"
    /\ WANT_VRED_TERMINATION_ON_ERROR
    /\ raised_in = "validate_render_settings"
    /\ Count("crashVred") = 1
    /\ Count("terminateVred") = 1
    /\ calls[Len(calls) - 1] = Call("crashVred", <<1>>)
    /\ calls[Len(calls)] = Terminate

\* C25: when RegionRendering is true and the configuration succeeded, the last
\* enableRaytracing call before startRenderToFile has the argument True and comes
\* after the region bounds were set, also when GPURaytracing is off.
C25_RegionRenderingForcesRaytracing ==
    render_parameters.RegionRendering
        => \A start \in CallsOf("startRenderToFile") :
              \E last \in CallsOf("enableRaytracing") :
                 /\ last < start
                 /\ \A j \in CallsOf("enableRaytracing") : j <= last
                 /\ calls[last].args = <<1>>
                 /\ Count("setRaytracingRenderRegion") = 1
                 /\ \A j \in DOMAIN calls : calls[j].fn \in RegionSetters => j < last

\* a Render job with GPURaytracing off and region rendering on: ray tracing was
\* switched off by the quality step and on again by the region step
C25_Witness ==
    /\ pc = "done"
    /\ exc = "none"
    /\ render_parameters.RegionRendering
    /\ settings.JobType = "Render"
    /\ settings.GPURaytracing = 0
    /\ Count("enableRaytracing") = 2
    /\ \E i \in CallsOf("enableRaytracing"), j \in CallsOf("enableRaytracing") :
          i < j /\ calls[i].args = <<0>> /\ calls[j].args = <<1>>
    /\ Count("startRenderToFile") = 1

\* DLSS was applied: its quality is not Off and the host supports DLSS (and the
\* camera view step returned)
DlssApplied ==
    /\ settings.JobType = "Render"
    /\ render_parameters.DLSSQuality # "Off"
    /\ settings.isDLSSSupported
    /\ ~(ViewMissing /\ render_parameters.JobFailureOnWarnings)

\* C26: in one render() DLSS and conventional supersampling are never both
\* applied: when setDLSSQuality is called (DLSS quality not Off, DLSS supported)
\* setSuperSamplingQuality and setSuperSampling are not called; supersampling is
\* applied exactly when the quality step ran, DLSS was not applied and the
\* supersampling quality is not Off.
C26_DlssExcludesSupersampling ==
    /\ Count("setDLSSQuality") > 0
          => Count("setSuperSamplingQuality") = 0 /\ Count("setSuperSampling") = 0
    /\ Count("setDLSSQuality") = Bool(settings # Unread /\ DlssApplied)
    /\ Count("setSuperSampling") = Count("setSuperSamplingQuality")
    /\ \A i \in CallsOf("setSuperSampling") : calls[i].args = <<1>>
    /\ Count("setSuperSamplingQuality")
          = Bool(/\ settings # Unread
                 /\ settings.JobType = "Render"
                 /\ ~(ViewMissing /\ render_parameters.JobFailureOnWarnings)
                 /\ ~DlssApplied
                 /\ render_parameters.SSQuality # "Off")

\* DLSS was applied with a supersampling quality High: a warning, no supersampling
C26_Witness ==
    /\ pc = "done"
    /\ settings # Unread
    /\ DlssApplied
    /\ render_parameters.SSQuality = "High"
    /\ ~render_parameters.JobFailureOnWarnings
    /\ Count("setDLSSQuality") = 1
    /\ Count("logger.warning") > 0
    /\ Count("setSuperSamplingQuality") = 0
    /\ Count("startRenderToFile") = 1

\* the setter calls made on node i among the calls cs
NodeSetters(cs, i) ==
    {k \in DOMAIN cs : cs[k].fn \in {"setSmartPath", "setSourcePath"} /\ cs[k].args = <<i>>}

\* what map_path gives for path once the rules are as they are after the step
MappedAfter(rules, path) == map_path(host, rules_file, rules, path).ret

\* C30: the file-reference mapping step rewrites, for each reference node, exactly
\* one path exactly once: the smart path of a smart reference becomes map_path of
\* that smart path, the source path of any other reference map_path of that
\* source path, and the node's other path is left as it was; when map_path raises
\* the step ends there and the nodes not reached are left as they were.
C30_OnePathPerNodeRewrittenOnce ==
    [][pc = "init_file_references"
          => \A new \in {SubSeq(calls', Len(calls) + 1, Len(calls'))} :
                /\ Len(references') = Len(references)
                /\ \A i \in DOMAIN references :
                      \A sets \in {NodeSetters(new, i)} :
                         /\ Cardinality(sets) <= 1
                         /\ exc' = "none" => Cardinality(sets) = 1
                         /\ sets = {} => references'[i] = references[i]
                         /\ references'[i].smart = references[i].smart
                         /\ references[i].smart
                               => /\ references'[i].source_path = references[i].source_path
                                  /\ \A k \in sets : new[k].fn = "setSmartPath"
                                  /\ sets # {}
                                        => references'[i].smart_path
                                              = MappedAfter(path_mapping_rules',
                                                            references[i].smart_path)
                         /\ ~references[i].smart
                               => /\ references'[i].smart_path = references[i].smart_path
                                  /\ \A k \in sets : new[k].fn = "setSourcePath"
                                  /\ sets # {}
                                        => references'[i].source_path
                                              = MappedAfter(path_mapping_rules',
                                                            references[i].source_path)]_vars

\* a render() with a rule that matches both references: the smart path of the
\* first and the source path of the second were rewritten, the other two kept
C30_Witness ==
    /\ pc = "done"
    /\ Len(references) = 2
    /\ Count("setSmartPath") = 1
    /\ Count("setSourcePath") = 1
    /\ references[1].smart_path # <<"/", "a", "/", "a">>
    /\ references[1].source_path = <<"a", "/", "/">>
    /\ references[2].smart_path = <<"a", "/", "/">>
    /\ references[2].source_path # <<"/", "A", "\\", "a">>

(***************************************************************************)
(* The submitter's FrameRange (scene.py) and its iteration.                *)
(***************************************************************************)
\* Python's range(start, stop, step) for a step that is not 0
RECURSIVE range(_, _, _)
range(start, stop, step) ==
    IF (step > 0 /\ start < stop) \/ (step < 0 /\ start > stop)
    THEN <<start>> \o range(start + step, stop, step)
    ELSE <<>>

\* FrameRange.__iter__, run to its end: the frames yielded, or the ValueError of
\* range() on a step of 0
FrameRange_iter(fr) ==
    LET stop == IF fr.stop # None THEN fr.stop[1] ELSE fr.start
        step == IF fr.step # None THEN fr.step[1] ELSE 1
    IN IF step = 0
       THEN [frames |-> <<>>, exc |-> "ValueError"]
       ELSE [frames |-> range(fr.start, stop + step, step), exc |-> "none"]

FrameRanges ==
    {FrameRange(start, stop, step) :
        start \in 0..MaxStart,
        stop \in {None} \cup {Some(n) : n \in 0..MaxStop},
        step \in {None} \cup {Some(n) : n \in (-1)..MaxStep}}

\* the worker's side while the submitter runs: nothing happens there
WorkerIdle ==
    /\ host = "posix"
    /\ rules_file = RulesFile("missing", <<>>)
    /\ path_mapping_rules = <<>>
    /\ load_attempts = 0
    /\ in_path = <<>>
    /\ map_calls = 0
    /\ last_map = NoMap
    /\ WANT_VRED_TERMINATION_ON_ERROR = TRUE
    /\ render_parameters = CHOOSE p \in RenderParameters : TRUE
    /\ settings = Unread
    /\ references = <<>>
    /\ pc = "idle"
    /\ calls = <<>>
    /\ exc = "none"
    /\ raised_in = "none"
    /\ render_parameters_dict = "complete"

FrameInit ==
    /\ WorkerIdle
    /\ frame_range \in FrameRanges
    /\ frame_iter = NotIterated
    /\ ui_settings = <<>>
    /\ queue_parameters = <<>>
    /\ parameter_call = NotAsked
    /\ BundleIdle

\* list(frame_range), once more
IterateFrameRange ==
    /\ frame_iter.count < MaxCalls
    /\ \E r \in {FrameRange_iter(frame_range)} :
          frame_iter' = [count |-> frame_iter.count + 1, frames |-> r.frames, exc |-> r.exc]
    /\ UNCHANGED <<worker_vars, frame_range, ui_settings, queue_parameters, parameter_call,
                   bundle_vars>>

FrameNext == IterateFrameRange

SpecFrames == FrameInit /\ [][FrameNext]_vars

\* stop and step as __iter__ takes them: a missing stop is start, a missing step 1
StopOf(fr) == IF fr.stop = None THEN fr.start ELSE fr.stop[1]

StepOf(fr) == IF fr.step = None THEN 1 ELSE fr.step[1]

\* start, start + step, start + 2*step, ... up to stop, for a step >= 1
FramesUpToStop(start, stop, step) ==
    [k \in 1..(IF stop < start THEN 0 ELSE (stop - start) \div step + 1) |->
        start + (k - 1) * step]

\* C18: iterating FrameRange(start, stop, step) with a step >= 1 (1 when missing)
\* yields exactly the frames start, start + step, start + 2*step, ... that are
\* <= stop (start when missing), in increasing order and never a frame beyond
\* stop: FrameRange(1, 10, 2) yields 1, 3, 5, 7, 9.
C18_FramesStopAtStop ==
    frame_iter.count > 0 /\ StepOf(frame_range) >= 1
        => /\ frame_iter.exc = "none"
           /\ frame_iter.frames
                 = FramesUpToStop(frame_range.start, StopOf(frame_range), StepOf(frame_range))
           /\ \A k \in DOMAIN frame_iter.frames : frame_iter.frames[k] <= StopOf(frame_range)

(***************************************************************************)
(* The submitter's _get_parameter_values (vred_submitter.py).              *)
(***************************************************************************)
\* a {name, value} record
Parameter(name, value) == [name |-> name, value |-> value]

\* _get_parameter_values looking for a conflict at the first queue parameter only
get_parameter_values_first_only(fields, queue) ==
    IF queue # <<>> /\ \E i \in DOMAIN fields : fields[i].name = queue[1].name
    THEN [ret |-> <<>>, exc |-> "DeadlineOperationError"]
    ELSE [ret |-> [i \in DOMAIN fields |-> Parameter(fields[i].name, fields[i].value)]
                     \o [i \in DOMAIN queue |-> Parameter(queue[i].name, queue[i].value)],
          exc |-> "none"]

\* _get_parameter_values(settings, queue_parameters), fields being the fields of
\* the settings in dataclass order with their values: the list returned, or the
\* DeadlineOperationError raised
get_parameter_values(fields, queue) ==
    LET parameter_values ==
            [i \in DOMAIN fields |-> Parameter(fields[i].name, fields[i].value)]
        parameter_names == {parameter_values[i].name : i \in DOMAIN parameter_values}
        queue_parameter_names == {queue[i].name : i \in DOMAIN queue}
        parameter_overlap == parameter_names \cap queue_parameter_names
    IN IF parameter_overlap # {}
       THEN [ret |-> <<>>, exc |-> "DeadlineOperationError"]
       ELSE [ret |-> parameter_values
                        \o [i \in DOMAIN queue |-> Parameter(queue[i].name, queue[i].value)],
             exc |-> "none"]

Values == 1..MaxValue

\* two fields of the settings, with the values the model draws
UiSettings ==
    {<<Parameter("ImageWidth", w), Parameter("ImageHeight", h)>> : w \in Values, h \in Values}

\* queue parameters: one named like a field of the settings, two that are not
QueueNames == {"ImageWidth", "CustomParam", "RezPackages"}

RECURSIVE QueueParametersUpTo(_)
QueueParametersUpTo(n) ==
    IF n = 0 THEN {<<>>}
    ELSE QueueParametersUpTo(n - 1)
            \cup {Append(q, Parameter(name, value)) :
                     q \in {q \in QueueParametersUpTo(n - 1) : Len(q) = n - 1},
                     name \in QueueNames, value \in Values}

ParametersInit ==
    /\ WorkerIdle
    /\ frame_range = FrameRange(0, None, None)
    /\ frame_iter = NotIterated
    /\ ui_settings \in UiSettings
    /\ queue_parameters \in QueueParametersUpTo(MaxQueue)
    /\ parameter_call = NotAsked
    /\ BundleIdle

\* self._get_parameter_values(settings, queue_parameters), once more
GetParameterValues ==
    /\ parameter_call.count < MaxCalls
    /\ \E r \in {get_parameter_values(ui_settings, queue_parameters)} :
          parameter_call' =
              [count |-> parameter_call.count + 1, ret |-> r.ret, exc |-> r.exc]
    /\ UNCHANGED <<worker_vars, frame_range, frame_iter, ui_settings, queue_parameters,
                   bundle_vars>>

ParametersNext == GetParameterValues

SpecParameters == ParametersInit /\ [][ParametersNext]_vars

\* a queue parameter is named like a field of the settings
NameConflict ==
    \E i \in DOMAIN queue_parameters, j \in DOMAIN ui_settings :
        queue_parameters[i].name = ui_settings[j].name

Truthy(v) == v # None /\ v # Some("")

\* self.default_job_template, with the name and description of the unit test
default_job_template ==
    JobTemplate(Some("Default Name"), Some("Default Description"), None)

\* _get_job_template(default_job_template, settings)
get_job_template(default, s) ==
    [default EXCEPT !.name = s.name,
                    !.description = IF Truthy(s.description) THEN s.description ELSE @]

\* the three files of a job bundle, in the order _create_job_bundle writes them
BundleFiles == <<"template.yaml", "parameter_values.yaml", "asset_references.yaml">>

\* _create_job_bundle: the template built, the files written and the exception
\* raised ("none": none). failing_open is the open() that raises OSError (0: none).
create_job_bundle(s, fields, queue, host_requirements, failing_open) ==
    LET job_template ==
            IF host_requirements # None
            THEN [get_job_template(default_job_template, s)
                     EXCEPT !.steps = [i \in DOMAIN @ |->
                                          [@[i] EXCEPT !.hostRequirements = host_requirements]]]
            ELSE get_job_template(default_job_template, s)
        parameter_values == get_parameter_values(fields, queue)
    IN IF parameter_values.exc # "none"
       THEN [template |-> job_template, files |-> <<>>, exc |-> parameter_values.exc]
       ELSE IF failing_open # 0
       THEN [template |-> job_template, files |-> SubSeq(BundleFiles, 1, failing_open - 1),
             exc |-> "OSError"]
       ELSE [template |-> job_template, files |-> BundleFiles, exc |-> "none"]

\* _create_job_bundle_callback: whether the scene file was saved, the number of
\* _create_job_bundle calls, their outcome, and whether the attachments were
\* copied to the settings afterwards
create_job_bundle_callback(s, fields, queue, dialog_result, host_requirements, failing_open) ==
    LET b == create_job_bundle(s, fields, queue, host_requirements, failing_open)
    IN [saved |-> Bool(s.scene_modified /\ s.purpose = "SUBMISSION" /\ dialog_result),
        created |-> 1, files |-> b.files, template |-> b.template,
        synced |-> b.exc = "none", exc |-> b.exc]

\* the names and descriptions of the settings: None, empty, given
Names == {None, Some(""), Some("Valid Job Name")}

Descriptions == {None, Some(""), Some("Valid Description")}

AllBundleSettings ==
    {BundleSettings(name, description, scene_name, exists, valid, step, modified, purpose) :
        name \in Names, description \in Descriptions, scene_name \in {"", "test_scene"},
        exists \in BOOLEAN, valid \in BOOLEAN, step \in {0, 1}, modified \in BOOLEAN,
        purpose \in {"SUBMISSION", "EXPORT"}}

\* the queue parameters of a bundle: none, one that is no field of the settings,
\* one named like a field of the settings
BundleQueueParameters ==
    {<<>>, <<Parameter("CustomParam", 1)>>, <<Parameter("ImageWidth", 1)>>}

BundleInit ==
    /\ WorkerIdle
    /\ frame_range = FrameRange(0, None, None)
    /\ frame_iter = NotIterated
    /\ ui_settings = <<Parameter("ImageWidth", 1), Parameter("ImageHeight", 1)>>
    /\ queue_parameters \in BundleQueueParameters
    /\ parameter_call = NotAsked
    /\ bundle_settings \in AllBundleSettings
    /\ template_call = NoTemplate
    /\ job_bundle = NoBundle

\* self._get_job_template(default_job_template, settings), once more
GetJobTemplate ==
    /\ template_call.count < MaxCalls
    /\ template_call' = [count |-> template_call.count + 1,
                        ret |-> get_job_template(default_job_template, bundle_settings)]
    /\ UNCHANGED <<worker_vars, frame_range, frame_iter, ui_settings, queue_parameters,
                   parameter_call, bundle_settings, job_bundle>>

\* the dialog calls _create_job_bundle_callback, once more; the user's answer to the
\* save prompt, the host requirements and the open() that fails are the step's inputs
CreateJobBundleCallback ==
    /\ job_bundle.count < MaxCalls
    /\ \E dialog_result \in BOOLEAN, host_requirements \in {None, Some(1)},
          failing_open \in 0..Len(BundleFiles) :
          \E r \in {create_job_bundle_callback(bundle_settings, ui_settings, queue_parameters,
                                               dialog_result, host_requirements,
                                               failing_open)} :
             job_bundle' = [count |-> job_bundle.count + 1, created |-> r.created,
                            saved |-> r.saved, files |-> r.files, template |-> r.template,
                            synced |-> r.synced, exc |-> r.exc]
    /\ UNCHANGED <<worker_vars, frame_range, frame_iter, ui_settings, queue_parameters,
                   parameter_call, bundle_settings, template_call>>

BundleNext == GetJobTemplate \/ CreateJobBundleCallback

SpecBundle == BundleInit /\ [][BundleNext]_vars

\* what the claim has the callback reject: a scene without a name, an output
\* directory that does not exist, an output file name prefix that is no valid
\* file name, a frame step of 0
InvalidSubmission(s) ==
    \/ s.scene_name = ""
    \/ ~s.output_dir_exists
    \/ ~s.prefix_valid
    \/ s.FrameStep = 0

\* C21: _create_job_bundle_callback aborts by raising, without writing any job
\* bundle file, when the scene has no name, the output directory does not exist,
\* the output file name prefix is not a valid file name or FrameStep is 0; when
\* all of these are valid it creates the job bundle exactly once.
C21_InvalidSubmissionWritesNoBundle ==
    job_bundle.count > 0
        => /\ InvalidSubmission(bundle_settings)
                => /\ job_bundle.exc # "none"
                   /\ job_bundle.files = <<>>
                   /\ job_bundle.created = 0
           /\ ~InvalidSubmission(bundle_settings) => job_bundle.created = 1

\* C22: _get_job_template returns a template whose name and description are the
\* settings' name and description when those are non-empty, and that keeps the
\* default template's name and description when the settings' name or description
\* is None or empty.
C22_TemplateKeepsDefaultsForEmptySettings ==
    template_call.count > 0
        => /\ template_call.ret.name
                 = (IF Truthy(bundle_settings.name) THEN bundle_settings.name
                    ELSE default_job_template.name)
           /\ template_call.ret.description
                 = (IF Truthy(bundle_settings.description) THEN bundle_settings.description
                    ELSE default_job_template.description)

(***************************************************************************)
(* The option lists of the submitter's dialog (ui/components/constants.py) *)
(* against the worker's validation: a selection made in the dialog is the  *)
(* parameter value the render script validates.                            *)
(***************************************************************************)
ANIMATION_TYPE_OPTIONS == {"Clip", "Timeline"}

DLSS_QUALITY_OPTIONS == {"Off", "Performance", "Balance", "Quality", "Ultra Performance"}

RENDER_QUALITY_OPTIONS ==
    {"Analytic Low", "Analytic High", "Realistic Low", "Realistic High", "Raytracing", "NPR"}

RENDER_QUALITY_DEFAULT == "Realistic High"

SS_QUALITY_OPTIONS == {"Off", "Low", "Medium", "High", "Ultra High"}

\* a selection of the dialog as render parameters; the fields the dialog's option
\* lists do not decide keep one value
Selection(rq, ss, dlss, at, sf, ef) ==
    [(CHOOSE p \in RenderParameters : TRUE) EXCEPT
        !.RenderQuality = rq, !.SSQuality = ss, !.DLSSQuality = dlss, !.AnimationType = at,
        !.StartFrame = sf, !.EndFrame = ef, !.JobFailureOnWarnings = FALSE,
        !.RegionRendering = FALSE]

\* the dialog as _configure_ui_settings_base_options leaves it: the default render
\* quality, the first entry of the other lists
DefaultSelection == Selection(RENDER_QUALITY_DEFAULT, "Off", "Off", "Clip", 0, 0)

SelectionInit ==
    /\ host = "posix"
    /\ rules_file = RulesFile("missing", <<>>)
    /\ path_mapping_rules = <<>>
    /\ load_attempts = 0
    /\ in_path = <<>>
    /\ map_calls = 0
    /\ last_map = NoMap
    /\ WANT_VRED_TERMINATION_ON_ERROR = TRUE
    /\ render_parameters = DefaultSelection
    /\ settings = Unread
    /\ references = <<>>
    /\ pc = "update_settings"
    /\ calls = <<>>
    /\ exc = "none"
    /\ raised_in = "none"
    /\ render_parameters_dict = "complete"
    /\ SubmitterIdle

\* update_settings_callback: the current text of each combo box becomes the
\* parameter value (with a frame range whose start does not exceed its end), which
\* the job hands to the render script unchanged
UpdateSettings ==
    /\ pc = "update_settings"
    /\ \E rq \in RENDER_QUALITY_OPTIONS, ss \in SS_QUALITY_OPTIONS,
          dlss \in DLSS_QUALITY_OPTIONS, at \in ANIMATION_TYPE_OPTIONS,
          sf \in Frames, ef \in Frames :
          /\ sf <= ef
          /\ render_parameters' = Selection(rq, ss, dlss, at, sf, ef)
    /\ pc' = "validate_render_settings"
    /\ UNCHANGED <<submitter_vars, render_parameters_dict>>
    /\ UNCHANGED <<map_vars, WANT_VRED_TERMINATION_ON_ERROR, settings, references, calls, exc,
                   raised_in>>

SelectionNext == UpdateSettings \/ ValidateRenderSettings

SpecSelection == SelectionInit /\ [][SelectionNext]_vars

\* C28: every option the dialog offers for render quality, supersampling quality,
\* DLSS quality and animation type is a member of the option set that
\* validate_render_settings checks it against, so that the validation of a job
\* submitted with any selection of the dialog does not fail.
C28_UiSelectionsPassValidation ==
    pc \notin {"update_settings", "validate_render_settings"}
        => /\ render_parameters.RenderQuality \in RENDER_QUALITY_DICT
           /\ render_parameters.SSQuality \in SS_QUALITY_DICT
           /\ render_parameters.DLSSQuality \in DLSS_QUALITY_DICT
           /\ render_parameters.AnimationType \in ANIMATION_TYPE_DICT
           /\ exc = "none"
           /\ pc = "init_file_references"

(***************************************************************************)
(* The entry point deadline_cloud_render: the test of the dictionary, the  *)
(* construction of the renderer and render().                              *)
(***************************************************************************)
\* the dictionaries handed to deadline_cloud_render: an empty one, one that lacks
\* a key __init__ reads (OutputDir, OutputFileNamePrefix, OutputFormat,
\* RegionRendering), one with every key
Dictionaries == {"empty", "missing_keys", "complete"}

\* DeadlineCloudRenderer.__init__: the exception that leaves it ("none": none)
renderer_init(dict) == IF dict = "missing_keys" THEN "AttributeError" ELSE "none"

EntryInit ==
    /\ host = "posix"
    /\ rules_file \in RenderRulesFiles
    /\ path_mapping_rules = <<>>
    /\ load_attempts = 0
    /\ in_path = <<>>
    /\ map_calls = 0
    /\ last_map = NoMap
    /\ WANT_VRED_TERMINATION_ON_ERROR = TRUE
    /\ render_parameters = CHOOSE p \in RenderParameters : TRUE
    /\ settings = Unread
    /\ references \in Scenes
    /\ pc = "deadline_cloud_render"
    /\ calls = <<>>
    /\ exc = "none"
    /\ raised_in = "none"
    /\ render_parameters_dict \in Dictionaries
    /\ SubmitterIdle

\* deadline_cloud_render(render_parameters_dict) up to the call of render(): an
\* empty dictionary is false and the function returns; an exception of __init__
\* leaves the function, to its caller; otherwise render() starts
DeadlineCloudRender ==
    /\ pc = "deadline_cloud_render"
    /\ IF render_parameters_dict = "empty"
       THEN /\ pc' = "returned"
            /\ UNCHANGED <<render_parameters, exc, raised_in>>
       ELSE IF renderer_init(render_parameters_dict) # "none"
       THEN /\ pc' = "raised"
            /\ exc' = renderer_init(render_parameters_dict)
            /\ raised_in' = "__init__"
            /\ UNCHANGED render_parameters
       ELSE /\ pc' = "validate_render_settings"
            /\ render_parameters' \in RenderParameters
            /\ UNCHANGED <<exc, raised_in>>
    /\ UNCHANGED <<submitter_vars, render_parameters_dict>>
    /\ UNCHANGED <<map_vars, WANT_VRED_TERMINATION_ON_ERROR, settings, references, calls>>

EntryNext == DeadlineCloudRender \/ Next

SpecEntry == EntryInit /\ [][EntryNext]_vars

\* C29: for any dictionary handed to deadline_cloud_render, an empty one and one
\* that lacks required keys included, no exception leaves the entry point and
\* terminateVred has been called at least once when it returns.
C29_EntryPointAlwaysTerminates ==
    /\ pc # "raised"
    /\ pc \in {"returned", "done"} => Count("terminateVred") >= 1
====
